---- MODULE Spec2Model ----
(***************************************************************************)
(* The freehand "draw" shape utility of src/lib/shape-utils/draw.tsx:      *)
(* create, render, getBounds, getRotatedBounds, hitTestBounds, transform   *)
(* and applyStyles, with the three identity-keyed caches (boundsCache,     *)
(* rotatedCache, pathCache).                                               *)
(*                                                                         *)
(* Numbers.  JavaScript numbers are modelled as extended rationals         *)
(* [n |-> numerator, d |-> denominator] in lowest terms with d >= 0:       *)
(* d = 0 gives the non-finite values 1/0 = Infinity, -1/0 = -Infinity and  *)
(* 0/0 = NaN, with the IEEE rules for them.  Rounding and the sign of      *)
(* zero are not modelled.  Rotations are whole quarter turns, whose sine   *)
(* and cosine are 0, 1 or -1.                                              *)
(***************************************************************************)
EXTENDS Integers, Sequences, FiniteSets, TLC

(* --------------------------- size of the model ------------------------ *)

\* Largest x- or y-extent of an initial stroke.
MaxExtent == 2
\* Largest width or height of a resize target box.
MaxSize == 2

(* ------------------------------ numbers ------------------------------- *)

Abs(i) == IF i < 0 THEN -i ELSE i

Sgn(i) == IF i < 0 THEN -1 ELSE IF i > 0 THEN 1 ELSE 0

RECURSIVE Gcd(_, _)
Gcd(a, b) == IF b = 0 THEN a ELSE Gcd(b, a % b)

\* The number n/d in lowest terms (d may be negative or 0 on entry).
Frac(n, d) ==
  IF d = 0 THEN [n |-> Sgn(n), d |-> 0]
  ELSE LET g == Gcd(Abs(n), Abs(d))
       IN  [n |-> (Sgn(d) * n) \div g, d |-> Abs(d) \div g]

R(i) == [n |-> i, d |-> 1]

NaN == [n |-> 0, d |-> 0]

Infinity == [n |-> 1, d |-> 0]

NegInfinity == [n |-> -1, d |-> 0]

IsNaN(a) == a.n = 0 /\ a.d = 0

IsFinite(a) == a.d # 0

\* a + b
Add(a, b) ==
  IF a.d = 0 /\ b.d = 0
  THEN (IF a.n = b.n THEN a ELSE NaN)
  ELSE Frac(a.n * b.d + b.n * a.d, a.d * b.d)

\* -a
Neg(a) == [n |-> -a.n, d |-> a.d]

\* a - b
Sub(a, b) == Add(a, Neg(b))

\* a * b
Mul(a, b) == Frac(a.n * b.n, a.d * b.d)

\* a / b   (x / 0 is Infinity, -Infinity or NaN by the sign of x)
Div(a, b) ==
  IF b.d = 0
  THEN (IF b.n = 0 \/ a.d = 0 THEN NaN ELSE R(0))
  ELSE IF b.n = 0
       THEN Frac(a.n, 0)
       ELSE Frac(a.n * b.d * Sgn(b.n), a.d * Abs(b.n))

\* a < b   (false when either is NaN)
Lt(a, b) ==
  /\ ~IsNaN(a)
  /\ ~IsNaN(b)
  /\ IF a.d = 0 /\ b.d = 0 THEN a.n < b.n
     ELSE IF a.d = 0 THEN a.n < 0
     ELSE IF b.d = 0 THEN b.n > 0
     ELSE a.n * b.d < b.n * a.d

\* a <= b
Le(a, b) == ~IsNaN(a) /\ ~IsNaN(b) /\ ~Lt(b, a)

\* a === b   (NaN equals nothing)
NumEq(a, b) == ~IsNaN(a) /\ ~IsNaN(b) /\ a = b

\* Math.min(a, b)
MathMin(a, b) == IF IsNaN(a) \/ IsNaN(b) THEN NaN ELSE IF Lt(b, a) THEN b ELSE a

\* Math.max(a, b)
MathMax(a, b) == IF IsNaN(a) \/ IsNaN(b) THEN NaN ELSE IF Lt(a, b) THEN b ELSE a

(* ------------------------------ vectors ------------------------------- *)

\* vec.add over the first two coordinates
VecAdd(A, B) == <<Add(A[1], B[1]), Add(A[2], B[2])>>

\* vec.sub
VecSub(A, B) == <<Sub(A[1], B[1]), Sub(A[2], B[2])>>

\* cosine and sine of q quarter turns
Cos(q) == R(CASE q % 4 = 0 -> 1 [] q % 4 = 1 -> 0 [] q % 4 = 2 -> -1 [] OTHER -> 0)

Sin(q) == R(CASE q % 4 = 0 -> 0 [] q % 4 = 1 -> 1 [] q % 4 = 2 -> 0 [] OTHER -> -1)

\* vec.rotWith(A, C, r): A rotated about C by r (quarter turns)
RotWith(A, C, q) ==
  LET px == Sub(A[1], C[1])
      py == Sub(A[2], C[2])
  IN  << Add(Sub(Mul(px, Cos(q)), Mul(py, Sin(q))), C[1]),
         Add(Add(Mul(px, Sin(q)), Mul(py, Cos(q))), C[2]) >>

(* ------------------------------- bounds ------------------------------- *)

Box(minX, minY, maxX, maxY) ==
  [minX |-> minX, minY |-> minY, maxX |-> maxX, maxY |-> maxY,
   width |-> Sub(maxX, minX), height |-> Sub(maxY, minY)]

RECURSIVE FoldMin(_, _, _)
FoldMin(pts, k, acc) ==
  IF pts = <<>> THEN acc
  ELSE FoldMin(Tail(pts), k, MathMin(Head(pts)[k], acc))

RECURSIVE FoldMax(_, _, _)
FoldMax(pts, k, acc) ==
  IF pts = <<>> THEN acc
  ELSE FoldMax(Tail(pts), k, MathMax(Head(pts)[k], acc))

\* The box enclosing the points as they are.
EnclosingBox(pts) ==
  Box(FoldMin(pts, 1, Infinity), FoldMin(pts, 2, Infinity),
      FoldMax(pts, 1, NegInfinity), FoldMax(pts, 2, NegInfinity))

\* getBoundsCenter
getBoundsCenter(b) ==
  << Add(b.minX, Div(b.width, R(2))), Add(b.minY, Div(b.height, R(2))) >>

\* getBoundsFromPoints(points, rotation): the box enclosing the points, after
\* rotating them about the centre of their unrotated box when rotation # 0.
getBoundsFromPoints(pts, q) ==
  IF q = 0 THEN EnclosingBox(pts)
  ELSE LET c == getBoundsCenter(EnclosingBox(pts))
       IN  EnclosingBox([i \in 1..Len(pts) |-> RotWith(pts[i], c, q)])

\* translateBounds(bounds, delta)
translateBounds(b, delta) ==
  [minX |-> Add(b.minX, delta[1]), minY |-> Add(b.minY, delta[2]),
   maxX |-> Add(b.maxX, delta[1]), maxY |-> Add(b.maxY, delta[2]),
   width |-> b.width, height |-> b.height]

\* boundsContain(a, b): box b lies inside box a
boundsContain(a, b) ==
  /\ Le(a.minX, b.minX)
  /\ Le(a.minY, b.minY)
  /\ Le(b.maxX, a.maxX)
  /\ Le(b.maxY, a.maxY)

\* The closed segments a1-a2 and b1-b2 meet in a single point.
SegmentsCross(a1, a2, b1, b2) ==
  LET AB  == VecSub(a1, b1)
      BV  == VecSub(b2, b1)
      AV  == VecSub(a2, a1)
      uat == Sub(Mul(BV[1], AB[2]), Mul(BV[2], AB[1]))
      ubt == Sub(Mul(AV[1], AB[2]), Mul(AV[2], AB[1]))
      ub  == Sub(Mul(BV[2], AV[1]), Mul(BV[1], AV[2]))
      ua  == Div(uat, ub)
      uc  == Div(ubt, ub)
  IN  /\ IsFinite(ub)
      /\ ub # R(0)
      /\ Le(R(0), ua) /\ Le(ua, R(1))
      /\ Le(R(0), uc) /\ Le(uc, R(1))

\* The four sides of a box, each a pair of corners.
BoxSides(b) ==
  { << <<b.minX, b.minY>>, <<b.maxX, b.minY>> >>,
    << <<b.maxX, b.minY>>, <<b.maxX, b.maxY>> >>,
    << <<b.maxX, b.maxY>>, <<b.minX, b.maxY>> >>,
    << <<b.minX, b.maxY>>, <<b.minX, b.minY>> >> }

\* intersectPolylineBounds(points, bounds).length > 0: some segment of the
\* polyline crosses a side of the box.
intersectPolylineBounds(pts, b) ==
  \E i \in 1..(Len(pts) - 1) :
    \E s \in BoxSides(b) : SegmentsCross(pts[i], pts[i + 1], s[1], s[2])

(* ------------------------------- styles ------------------------------- *)

\* defaultStyle of lib/shape-styles (colour left out: nothing here reads it)
defaultStyle == [size |-> "Medium", dash |-> "Solid", isFilled |-> FALSE]

\* { ...a, ...b }
Spread(a, b) ==
  [f \in (DOMAIN a) \cup (DOMAIN b) |-> IF f \in DOMAIN b THEN b[f] ELSE a[f]]

\* getShapeStyle(style).strokeWidth
strokeWidth(style) == IF style.size = "Small" THEN 2 ELSE 4

\* The partial styles a caller passes to create and applyStyles.
PartialStyles ==
  { [x \in {} |-> x],
    [size |-> "Small"],
    [size |-> "Medium"],
    [dash |-> "Dashed"],
    [isFilled |-> TRUE],
    [size |-> "Small", dash |-> "Dashed", isFilled |-> TRUE] }

(* ------------------------------- inputs ------------------------------- *)

\* 0.5, the pressure that stands for "no pressure recorded", in tenths
HalfPressure == 5

Pt(x, y, p) == <<R(x), R(y), p>>

\* Strokes from the origin with no recorded pressure.
OriginStrokes ==
  { << Pt(0, 0, HalfPressure), Pt(e, 1, HalfPressure) >> : e \in 1..MaxExtent }

\* A stroke whose box does not start at 0, with recorded pressure.
OffsetStroke == << Pt(1, 1, 3), Pt(2, 3, 8) >>

\* A horizontal stroke: its box has height 0.
FlatStroke == << Pt(0, 0, HalfPressure), Pt(2, 0, HalfPressure) >>

\* A stroke of three samples that runs back on itself.
BentStroke == << Pt(2, 0, 3), Pt(0, 1, 8), Pt(1, 2, 6) >>

\* Initial strokes, each a sequence of samples (x, y, pressure in tenths).
InitPoints == OriginStrokes \cup {OffsetStroke, FlatStroke, BentStroke}


FarAnchor == <<R(3), R(1)>>

Anchors == { <<R(0), R(0)>>, FarAnchor }

\* Rotations, in quarter turns.
Rotations == {0, 1}

IntBox(minX, minY, w, h) == Box(R(minX), R(minY), R(minX + w), R(minY + h))

\* The boxes a resize gesture asks for.
TargetBoxes ==
  { IntBox(2, 0, w, h) : w \in 1..MaxSize, h \in 1..2 }
  \cup { IntBox(2, 0, 0, 1) }

Scales == {-1, 1}

\* The brush boxes of a marquee selection.
BrushBoxes == { IntBox(-1, -1, 6, 6), IntBox(1, -1, 1, 4), IntBox(3, 0, 2, 3) }

(* ------------------------------- state -------------------------------- *)

VARIABLES
  shape,         \* the draw shape: point, points, pointsId, rotation, style
  initialShape,  \* <<>> or <<s>>: the resize gesture's copy of the shape
  boundsCache,   \* WeakMap: object ("shape", "initial") -> local bounds
  rotatedCache,  \* WeakMap: object ("shape") -> rotated document-space points
  pathCache,     \* WeakMap: points identity -> outline path
  computed,      \* how often getBounds(shape) computed the local box
  gbLast,        \* <<>> or <<c>>: the last getBounds(shape) call
  ret            \* the last operation, its arguments and what it returned

vars ==
  <<shape, initialShape, boundsCache, rotatedCache, pathCache, computed,
    gbLast, ret>>

EmptyMap == [x \in {} |-> x]

\* map.set(k, v)
MapSet(m, k, v) == [x \in (DOMAIN m) \cup {k} |-> IF x = k THEN v ELSE m[x]]

\* A WeakMap holds no entry whose key is unreachable: keep the live keys.
Live(m, keys) == [x \in (DOMAIN m) \cap keys |-> m[x]]

\* The identity of a newly allocated points array (the address of the array
\* it replaces is free again once that array is dropped).
FreshId(old) == 1 - old

(* ------------------------------- create ------------------------------- *)

create(props) ==
  [ point    |-> props.point,
    points   |-> props.points,
    pointsId |-> 0,
    rotation |-> props.rotation,
    style    |-> Spread(Spread(defaultStyle, props.style), [isFilled |-> FALSE]) ]

\* The state after create(props), for props drawn from the given sets.
InitWith(pointSets, anchors, rotations, styles) ==
  /\ \E pts \in pointSets, a \in anchors, q \in rotations, st \in styles :
       shape = create([point |-> a, points |-> pts, rotation |-> q, style |-> st])
  /\ initialShape = <<>>
  /\ boundsCache = EmptyMap
  /\ rotatedCache = EmptyMap
  /\ pathCache = EmptyMap
  /\ computed = 0
  /\ gbLast = <<>>
  /\ ret = [op |-> "create"]

(* ------------------------------ getBounds ----------------------------- *)

\* boundsCache after getBounds(shape)
boundsCacheAfterGet ==
  IF "shape" \in DOMAIN boundsCache THEN boundsCache
  ELSE MapSet(boundsCache, "shape", getBoundsFromPoints(shape.points, 0))

\* getBounds that hands out the cached local box as it is, not translated.
getBoundsResult_Untranslated == boundsCacheAfterGet["shape"]

\* what getBounds(shape) returns
getBoundsResult == translateBounds(boundsCacheAfterGet["shape"], shape.point)

\* The effect of a call of this.getBounds(shape), on its own or from within
\* getRotatedBounds and hitTestBounds.
getBoundsCall ==
  /\ boundsCache' = boundsCacheAfterGet
  /\ computed' = IF "shape" \in DOMAIN boundsCache THEN computed ELSE computed + 1
  /\ gbLast' = << [ box |-> getBoundsResult,
                     anchor |-> shape.point,
                     moved |-> gbLast # <<>> /\ gbLast[1].anchor # shape.point ] >>

getBounds ==
  /\ getBoundsCall
  /\ ret' = [op |-> "getBounds"]
  /\ UNCHANGED <<shape, initialShape, rotatedCache, pathCache>>

(* --------------------------- getRotatedBounds -------------------------- *)

\* what getRotatedBounds(shape) returns (it calls getBounds on the way)
getRotatedBoundsResult ==
  LET rBounds == translateBounds(getBoundsFromPoints(shape.points, shape.rotation),
                                 shape.point)
      bounds  == getBoundsResult
      delta   == VecSub(getBoundsCenter(bounds), getBoundsCenter(rBounds))
  IN  translateBounds(rBounds, delta)

getRotatedBounds ==
  /\ getBoundsCall
  /\ ret' = [op |-> "getRotatedBounds"]
  /\ UNCHANGED <<shape, initialShape, rotatedCache, pathCache>>

(* ---------------------------- hitTestBounds --------------------------- *)

\* The points of the shape in document space, rotated about c.
RotatedPoints(c) ==
  [i \in 1..Len(shape.points) |->
     RotWith(VecAdd(shape.points[i], shape.point), c, shape.rotation)]

\* rotatedCache after hitTestBounds(shape, _) on a rotated shape
rotatedCacheAfterHit ==
  IF "shape" \in DOMAIN rotatedCache THEN rotatedCache
  ELSE MapSet(rotatedCache, "shape",
              RotatedPoints(getBoundsCenter(getRotatedBoundsResult)))

\* what hitTestBounds(shape, brushBounds) returns
hitTestBoundsResult(brushBounds) ==
  IF shape.rotation = 0
  THEN \/ boundsContain(brushBounds, getBoundsResult)
       \/ intersectPolylineBounds(shape.points, brushBounds)
  ELSE \/ boundsContain(brushBounds, getRotatedBoundsResult)
       \/ intersectPolylineBounds(rotatedCacheAfterHit["shape"], brushBounds)

hitTestBounds(brushBounds) ==
  /\ getBoundsCall
  /\ rotatedCache' = IF shape.rotation = 0 THEN rotatedCache ELSE rotatedCacheAfterHit
  /\ ret' = [op |-> "hitTestBounds", brush |-> brushBounds,
             hit |-> hitTestBoundsResult(brushBounds)]
  /\ UNCHANGED <<shape, initialShape, pathCache>>

(* ------------------------------ transform ----------------------------- *)

\* The start of a resize gesture: the gesture keeps a copy of the shape and
\* calls getBounds on the copy, which fills boundsCache for it (transform's
\* precondition).  The copy of an earlier gesture is dropped.
beginTransform ==
  /\ initialShape' = << [point |-> shape.point, points |-> shape.points] >>
  /\ boundsCache' = MapSet(boundsCache, "initial", getBoundsFromPoints(shape.points, 0))
  /\ ret' = [op |-> "beginTransform"]
  /\ UNCHANGED <<shape, rotatedCache, pathCache, computed, gbLast>>

\* A remap that negates the proportion under a negative scale factor.
Remap_Negated(x, from, to, scale) ==
  Mul(to, IF scale < 0 THEN Neg(Div(x, from)) ELSE Div(x, from))

\* one coordinate of a remapped sample
Remap(x, from, to, scale) ==
  Mul(to, IF scale < 0 THEN Sub(R(1), Div(x, from)) ELSE Div(x, from))

\* shape.points after transform
transformPoints(initial, initialShapeBounds, bounds, scaleX, scaleY) ==
  [i \in 1..Len(initial.points) |->
     << Remap(initial.points[i][1], initialShapeBounds.width, bounds.width, scaleX),
        Remap(initial.points[i][2], initialShapeBounds.height, bounds.height, scaleY) >>]

\* shape.point after transform
transformPoint(newPoints, bounds) ==
  LET newBounds == getBoundsFromPoints(newPoints, 0)
  IN  VecSub(<<bounds.minX, bounds.minY>>, <<newBounds.minX, newBounds.minY>>)

\* The document-space bounds of the gesture's copy: where a resize starts.
InitialBounds == translateBounds(boundsCache["initial"], initialShape[1].point)

transform(bounds, scaleX, scaleY) ==
  /\ initialShape # <<>>
  /\ LET newPoints == transformPoints(initialShape[1], boundsCache["initial"],
                                      bounds, scaleX, scaleY)
     IN  shape' = [shape EXCEPT !.points = newPoints,
                                !.pointsId = FreshId(shape.pointsId),
                                !.point = transformPoint(newPoints, bounds)]
  /\ pathCache' = Live(pathCache, {shape'.pointsId})
  /\ ret' = [op |-> "transform", bounds |-> bounds, scaleX |-> scaleX,
             scaleY |-> scaleY]
  /\ UNCHANGED <<initialShape, boundsCache, rotatedCache, computed, gbLast>>

(* ----------------------------- applyStyles ---------------------------- *)

\* shape.style after applyStyles(shape, style)
applyStylesStyle(style) ==
  [Spread(shape.style, style) EXCEPT !.isFilled = FALSE, !.dash = "Solid"]

\* applyStyles that keeps the points array it was given.
applyStylesPointsId_SameArray == shape.pointsId

\* the identity of shape.points after applyStyles: [...shape.points] is a new array
applyStylesPointsId == FreshId(shape.pointsId)

applyStyles(style) ==
  /\ shape' = [shape EXCEPT !.style = applyStylesStyle(style),
                            !.pointsId = applyStylesPointsId]
  /\ pathCache' = Live(pathCache, {shape'.pointsId})
  /\ ret' = [op |-> "applyStyles", style |-> style, before |-> shape,
             hadPath |-> shape.pointsId \in DOMAIN pathCache]
  /\ UNCHANGED <<initialShape, boundsCache, rotatedCache, computed, gbLast>>

(* ------------------------------- render ------------------------------- *)

\* What renderPath stores: the outline of the stroke, which depends on the
\* points and on the options handed to getStroke.
renderPath ==
  IF Len(shape.points) < 2 THEN [d |-> ""]
  ELSE [ d |-> "stroke",
         points |-> shape.points,
         size |-> 1 + strokeWidth(shape.style) * 2,
         simulatePressure |-> /\ Len(shape.points[2]) >= 3
                              /\ shape.points[2][3] = HalfPressure ]

render ==
  /\ pathCache' = IF shape.pointsId \in DOMAIN pathCache THEN pathCache
                  ELSE MapSet(pathCache, shape.pointsId, renderPath)
  /\ ret' = [op |-> "render",
             after |-> ret.op,
             regenerated |-> shape.pointsId \notin DOMAIN pathCache,
             element |-> IF Len(shape.points) < 2 THEN "circle" ELSE "path"]
  /\ UNCHANGED <<shape, initialShape, boundsCache, rotatedCache, computed, gbLast>>

(* ------------------------------ the owner ----------------------------- *)

\* The document moves the shape: shape.point is set to another anchor.
translateTo(point) ==
  /\ shape' = [shape EXCEPT !.point = point]
  /\ ret' = [op |-> "translateTo"]
  /\ UNCHANGED <<initialShape, boundsCache, rotatedCache, pathCache, computed, gbLast>>

(* ---------------------------------------------------------------------- *)

(* --------------------------- specifications -------------------------- *)

\* The resize targets of a gesture: the boxes above and the box it starts from.
Targets ==
  TargetBoxes \cup (IF "initial" \in DOMAIN boundsCache THEN {InitialBounds} ELSE {})

\* Resizing: gestures on a shape away from the origin.
InitTransform == InitWith(InitPoints, {FarAnchor}, {0}, {EmptyMap})

NextTransform ==
  \/ beginTransform
  \/ \E b \in Targets, sx \in Scales, sy \in Scales : transform(b, sx, sy)

SpecTransform == InitTransform /\ [][NextTransform]_vars

\* Bounds of an unrotated shape that is moved, restyled and resized.
InitBounds == InitWith(OriginStrokes, {FarAnchor}, {0}, {EmptyMap})

NextBounds ==
  \/ getBounds
  \/ getRotatedBounds
  \/ beginTransform
  \/ \E w \in {1, MaxSize}, sx \in Scales : transform(IntBox(2, 0, w, 1), sx, 1)
  \/ applyStyles([size |-> "Small"])
  \/ \E a \in Anchors : translateTo(a)

SpecBounds == InitBounds /\ [][NextBounds]_vars

\* Brush selection of shapes, rotated or not, that are resized in between.
InitHit == InitWith(InitPoints, Anchors, Rotations, {EmptyMap})

NextHit ==
  \/ \E b \in BrushBoxes : hitTestBounds(b)
  \/ beginTransform
  \/ \E b \in TargetBoxes : transform(b, 1, 1)

SpecHit == InitHit /\ [][NextHit]_vars

\* Styles: shapes created with any style, restyled, rendered and resized.
InitStyle == InitWith(InitPoints, {FarAnchor}, {0}, PartialStyles)

NextStyle ==
  \/ \E st \in PartialStyles : applyStyles(st)
  \/ render
  \/ beginTransform
  \/ transform(IntBox(2, 0, MaxSize, 1), 1, 1)

SpecStyle == InitStyle /\ [][NextStyle]_vars

(* ------------------------------- claims ------------------------------- *)

\* The box of the shape's current points at its current anchor, from scratch.
FreshBounds == translateBounds(getBoundsFromPoints(shape.points, 0), shape.point)

\* C1: in every state, getBounds(shape) returns the box computed from scratch
\* from the shape's current points and translated by its current anchor.
C1_BoundsAsFromScratch == getBoundsResult = FreshBounds

\* C2: getBounds computes the local box of a shape object at most once, every
\* call returns that stored box translated by the anchor of the moment, and
\* between two calls the box keeps its size while its min corner moves by the
\* change of the anchor (anchors being finite).
C2_LocalBoxOnceAnchorEachCall ==
  /\ [](computed <= 1)
  /\ [](gbLast # <<>> =>
          gbLast[1].box = translateBounds(boundsCache["shape"], gbLast[1].anchor))
  /\ [][ (gbLast # <<>> /\ gbLast' # <<>>) =>
           LET a == gbLast[1]
               b == gbLast'[1]
               d == VecSub(b.anchor, a.anchor)
           IN  (IsFinite(d[1]) /\ IsFinite(d[2])) =>
                 /\ b.box.width = a.box.width
                 /\ b.box.height = a.box.height
                 /\ b.box.minX = Add(a.box.minX, d[1])
                 /\ b.box.minY = Add(a.box.minY, d[2]) ]_vars

\* C2 witness: a second getBounds call, after the anchor moved, with the local
\* box computed once.
C2_Witness ==
  /\ gbLast # <<>>
  /\ gbLast[1].moved
  /\ IsFinite(gbLast[1].anchor[1])
  /\ computed = 1
  /\ ret.op = "getBounds"

\* The shape's polyline in document space.
DocPoints == [i \in 1..Len(shape.points) |-> VecAdd(shape.points[i], shape.point)]

\* C3: on an unrotated shape hitTestBounds is true exactly when the brush box
\* contains the shape's document-space bounds or the polyline, placed at the
\* shape's anchor, crosses the brush box.
C3_UnrotatedHitInDocumentSpace ==
  (ret.op = "hitTestBounds" /\ shape.rotation = 0) =>
    ret.hit = ( \/ boundsContain(ret.brush, FreshBounds)
                \/ intersectPolylineBounds(DocPoints, ret.brush) )

\* C4: after transform, the box of the new points at the new anchor is the
\* target box: same top-left corner, width and height.
C4_TransformFillsTarget ==
  ret.op = "transform" =>
    /\ NumEq(FreshBounds.minX, ret.bounds.minX)
    /\ NumEq(FreshBounds.minY, ret.bounds.minY)
    /\ NumEq(FreshBounds.width, ret.bounds.width)
    /\ NumEq(FreshBounds.height, ret.bounds.height)

\* C5: transform with scale factors 1 onto the box the gesture started from
\* leaves every sample (x, y and pressure) and the anchor as they were.
C5_IdentityTransform ==
  (ret.op = "transform" /\ ret.scaleX = 1 /\ ret.scaleY = 1
     /\ ret.bounds = InitialBounds) =>
    /\ shape.points = initialShape[1].points
    /\ shape.point = initialShape[1].point

\* C6: the style of the shape is never filled and never dashed.
C6_NeverFilledAlwaysSolid ==
  shape.style.isFilled = FALSE /\ shape.style.dash = "Solid"

\* C7: applyStyles leaves the old style overridden by the partial style, but
\* unfilled and solid; the points are a new sequence with the same samples,
\* for which pathCache holds nothing; the next render regenerates the outline.
C7_ApplyStyles ==
  /\ ret.op = "applyStyles" =>
       /\ DOMAIN shape.style = DOMAIN ret.before.style
       /\ \A f \in DOMAIN shape.style :
            shape.style[f] =
              CASE f = "isFilled" -> FALSE
                [] f = "dash" -> "Solid"
                [] f \in DOMAIN ret.style -> ret.style[f]
                [] OTHER -> ret.before.style[f]
       /\ shape.pointsId # ret.before.pointsId
       /\ shape.points = ret.before.points
       /\ shape.pointsId \notin DOMAIN pathCache
  /\ (ret.op = "render" /\ ret.after = "applyStyles") => ret.regenerated

\* C7 witness: applyStyles with a dashed, filled partial style on a shape whose
\* outline was cached.
C7_Witness ==
  /\ ret.op = "applyStyles"
  /\ ret.hadPath
  /\ "dash" \in DOMAIN ret.style
  /\ "size" \in DOMAIN ret.style
  /\ ret.style.size # ret.before.style.size

\* C8: on an unrotated shape getRotatedBounds equals getBounds.
C8_RotatedBoundsOfUnrotated ==
  shape.rotation = 0 =>
    /\ getRotatedBoundsResult.minX = getBoundsResult.minX
    /\ getRotatedBoundsResult.minY = getBoundsResult.minY
    /\ getRotatedBoundsResult.width = getBoundsResult.width
    /\ getRotatedBoundsResult.height = getBoundsResult.height

\* A coordinate x of a sample, as a fraction of the extent it is measured in.
Normalized(x, extent) == Div(x, extent)

\* The normalized offset exists: the extent is a number other than 0.
Extent(e) == IsFinite(e) /\ e # R(0)

\* C9: along an axis with a negative scale factor the normalized offset of
\* every sample becomes 1 minus what it was, along the other axes it stays
\* (wherever both extents are non-zero, so that the offsets exist); no
\* coordinate is negative when the initial box starts at 0.
C9_NegativeScaleMirrors ==
  ret.op = "transform" =>
    LET from == boundsCache["initial"]
        old  == initialShape[1].points
    IN  \A i \in 1..Len(shape.points) :
          /\ (Extent(from.width) /\ Extent(ret.bounds.width)) =>
               Normalized(shape.points[i][1], ret.bounds.width) =
                 IF ret.scaleX < 0
                 THEN Sub(R(1), Normalized(old[i][1], from.width))
                 ELSE Normalized(old[i][1], from.width)
          /\ (Extent(from.height) /\ Extent(ret.bounds.height)) =>
               Normalized(shape.points[i][2], ret.bounds.height) =
                 IF ret.scaleY < 0
                 THEN Sub(R(1), Normalized(old[i][2], from.height))
                 ELSE Normalized(old[i][2], from.height)
          /\ (from.minX = R(0) /\ from.minY = R(0)) =>
               /\ ~Lt(shape.points[i][1], R(0))
               /\ ~Lt(shape.points[i][2], R(0))

\* C9 witness: a resize mirrored in x only, of a stroke whose box starts at 0,
\* that moved a sample.
C9_Witness ==
  /\ ret.op = "transform"
  /\ ret.scaleX < 0
  /\ ret.scaleY > 0
  /\ boundsCache["initial"].minX = R(0)
  /\ Extent(boundsCache["initial"].width)
  /\ Extent(boundsCache["initial"].height)
  /\ Extent(ret.bounds.width)
  /\ \E i \in 1..Len(shape.points) :
       Normalized(shape.points[i][1], ret.bounds.width)
         # Normalized(initialShape[1].points[i][1], boundsCache["initial"].width)

\* C10: on a rotated shape hitTestBounds tests the shape's current points, at
\* its current anchor, rotated about the centre of its current rotated bounds.
C10_RotatedHitUsesCurrentPoints ==
  (ret.op = "hitTestBounds" /\ shape.rotation # 0) =>
    ret.hit = ( \/ boundsContain(ret.brush, getRotatedBoundsResult)
                \/ intersectPolylineBounds(
                     RotatedPoints(getBoundsCenter(getRotatedBoundsResult)),
                     ret.brush) )

====
